---- MODULE Spec2Model ----
(***************************************************************************)
(* The terminal UI core of the asset index browser: the tree list          *)
(* navigator (ListView), the browser's key handler that drives it, the      *)
(* input dispatcher (InputManager) and the panel geometry (get_size).       *)
(*                                                                          *)
(*   Spec        the ListView object on its own: any caller, any argument   *)
(*               (set_list, insert_items, collapse_items, prev, next,       *)
(*               get_value, recalculate_layout).                            *)
(*   AppSpec     the running browser: the list holds rows of the asset tree *)
(*               and only AssetIndexBrowser.on_key and a terminal resize    *)
(*               change it.                                                 *)
(*   RenderSpec  the ListView given style rules (set_style) and folders of  *)
(*               the asset tree (set_list), with prev and next.             *)
(*   InputSpec   the InputManager: its listener registry, its thread's      *)
(*               loop and stop().                                           *)
(*   GeomSpec    DisplayPanel.get_size applied to panel properties and      *)
(*               terminal sizes.                                            *)
(*   DrawSpec    Panel.set_text and DisplayManager.draw_title writing to    *)
(*               curses windows of given sizes.                             *)
(*   ConfigSpec  DisplayPanel.__init__ given any panel properties.          *)
(*   StartSpec   the main thread (setup, await_termination, terminate) and  *)
(*               the InputManager thread, interleaved.                      *)
(*   LayoutSpec  the three panels of DisplayManager.start laid out on a     *)
(*               terminal of any size.                                      *)
(*   ExtractSpec the running browser with the files under asset_folder:     *)
(*               moving, expanding and extracting (key X).                  *)
(*                                                                          *)
(* Python indices are 0-based; sequences here are 1-based, so list[k] of    *)
(* the source is list[k + 1] below.  cursor and scroll_offset keep the      *)
(* source's 0-based values.                                                 *)
(***************************************************************************)
EXTENDS Integers, Sequences, FiniteSets, TLC

VARIABLES
    list,           \* ListView.list: the flattened rows
    cursor,         \* ListView.cursor
    scroll_offset,  \* ListView.scroll_offset
    max_height,     \* DisplayPanel.max_height: the content rows of the panel
    expanded,       \* AssetTreeElement.expanded of every tree node
    op,             \* the operation that produced this state and its argument
    result,         \* what the last call returned or raised
    styles,         \* ListView.styles: the style rules in registration order
    window,         \* the rows now drawn on the list view's curses window
    preview,        \* the preview Panel: its contents and the text on its window
    listeners,      \* InputManager.listeners: the dict, in insertion order
    running,        \* InputManager.running
    thread,         \* where the InputManager thread is: "new", "blocked", "exited"
    delivered,      \* the callbacks made for the last event read, in order
    after_stop,     \* dispatches that began with running already cleared
    panel,          \* a DisplayPanel's properties, a terminal size and get_size's result
    text_panel,     \* a Panel: its borders, max_width, max_height and contents
    frame,          \* what the last redraw wrote: its addstr calls, border, refresh
    main,           \* where the main thread is in setup / await_termination
    iterator,       \* the iterator of dispatch_event's for loop over the listeners
    terminal,       \* the terminal's mode: "shell", "curses" or "restored"
    layout,         \* the Windows get_size gives the DisplayManager's three panels
    asset_folder    \* the files under asset_folder: objects and extracted copies

vars == <<list, cursor, scroll_offset, max_height, expanded, op, result,
          styles, window, preview, listeners, running, thread, delivered,
          after_stop, panel, text_panel, frame, main, iterator, terminal,
          layout, asset_folder>>

drawVars == <<text_panel, frame>>

threadVars == <<main, iterator, terminal>>

appVars == <<layout, asset_folder>>

inputVars == <<listeners, running, thread, delivered, after_stop>>

----------------------------------------------------------------------------
(* Bounds of the model.                                                     *)

MaxNewLen == 2      \* longest list handed to set_list
MaxInsertLen == 2   \* longest list handed to insert_items
MaxListLen == 5     \* insert_items is not called on a list that would grow past this
MaxCount == 2       \* largest item_count handed to collapse_items
MinTermHeight == 5  \* smallest terminal height of a resize
MaxTermHeight == 5  \* largest terminal height of a resize
MaxRules == 2       \* most style rules handed to set_style
MinTermWidth == 7   \* smallest terminal width of a resize
MaxTermWidth == 8   \* largest terminal width of a resize
MaxLines == 2       \* most lines of a text handed to Panel.set_text

----------------------------------------------------------------------------
(* Python built-ins the source relies on.                                   *)

Min(a, b) == IF a <= b THEN a ELSE b

Max(a, b) == IF a >= b THEN a ELSE b

\* clamp without the upper bound
clamp_NoUpperBound(value, value_min, value_max) == Max(value, value_min)

\* util.clamp
clamp(value, value_min, value_max) == Min(Max(value, value_min), value_max)

\* the position a slice bound or an insert index denotes in a list of length n
PyIndex(k, n) == IF k < 0 THEN Max(k + n, 0) ELSE Min(k, n)

\* l[a:b]
PySlice(l, a, b) == SubSeq(l, PyIndex(a, Len(l)) + 1, PyIndex(b, Len(l)))

\* l.insert(i, x)
PyInsert(l, i, x) ==
    LET j == PyIndex(i, Len(l))
    IN  SubSeq(l, 1, j) \o <<x>> \o SubSeq(l, j + 1, Len(l))

----------------------------------------------------------------------------
(* The list view's panel: DisplayManager.start builds it with               *)
(* set_constraints(bottom=3), set_size(width=0.4), set_borders(vertical).   *)
(* A constraint is an int (cells) or a float (a fraction num/den of the     *)
(* terminal dimension).                                                     *)

Cells(n) == [is_int |-> TRUE, num |-> n, den |-> 1]

Fraction(n, d) == [is_int |-> FALSE, num |-> n, den |-> d]

\* the operand of get_size: the value, or floor(value * dimension)
Scaled(c, dimension) ==
    IF c.is_int THEN c.num ELSE (c.num * dimension) \div c.den

ListViewProperties ==
    [top |-> Cells(1), bottom |-> Cells(3), height |-> Fraction(1, 1),
     float_vertical |-> "TOP", box_horizontal |-> FALSE, box_vertical |-> TRUE]

\* DisplayPanel.get_size, vertical axis: <<calculated_top, calculated_height>>
get_size_vertical(properties, terminal_height) ==
    LET top == Scaled(properties.top, terminal_height)
        bottom == Scaled(properties.bottom, terminal_height)
        height == Scaled(properties.height, terminal_height)
        leftover_height == terminal_height - top - bottom
    IN  CASE properties.float_vertical = "TOP" ->
                <<top, IF height = 0 THEN leftover_height
                                     ELSE Min(leftover_height, height)>>
          [] properties.float_vertical = "CENTER" ->
                IF height = 0
                THEN <<top, terminal_height - top - bottom>>
                ELSE <<(terminal_height - Min(leftover_height, height)) \div 2,
                       Min(leftover_height, height)>>
          [] properties.float_vertical = "BOTTOM" ->
                LET calculated_height ==
                        IF height = 0 THEN leftover_height
                                      ELSE Min(leftover_height, height)
                IN  <<terminal_height - calculated_height, calculated_height>>

\* DisplayPanel.__init__ sizes the panel against TerminalSize(10, 10)
InitTermHeight == 10

InitMaxHeight == get_size_vertical(ListViewProperties, InitTermHeight)[2] - 2

\* the max_height DisplayPanel.recalculate_layout stores
LayoutMaxHeight(properties, terminal_height) ==
    get_size_vertical(properties, terminal_height)[2]
        - (IF properties.box_horizontal THEN 2 ELSE 0)

TermHeights == MinTermHeight..MaxTermHeight

----------------------------------------------------------------------------
(* The asset tree the browser shows: the tree AssetIndex.get_file_tree      *)
(* builds for the index                                                     *)
(*    a/b/f6   a/f5   c/f7   f3                                             *)
(* Node 0 is the root; directories are 1 (a), 2 (c), 4 (a/b).               *)

Root == 0

Nodes == 0..7

children ==
    [node \in Nodes |->
        CASE node = 0 -> <<1, 2, 3>>
          [] node = 1 -> <<4, 5>>
          [] node = 2 -> <<7>>
          [] node = 4 -> <<6>>
          [] OTHER -> <<>>]

entry_type ==
    [node \in Nodes |->
        IF node \in {0, 1, 2, 4} THEN "entry:directory" ELSE "entry:file"]

Directories == {node \in Nodes : entry_type[node] = "entry:directory"}

\* AssetTreeElement.list_folder
list_folder(node) == children[node]

\* the concatenation of list_folder over the expanded nodes of to_count
RECURSIVE NewKids(_, _)
NewKids(to_count, flags) ==
    IF to_count = <<>> THEN <<>>
    ELSE (IF flags[Head(to_count)] THEN list_folder(Head(to_count)) ELSE <<>>)
            \o NewKids(Tail(to_count), flags)

\* the while loop of count_expanded_children
RECURSIVE CountLoop(_, _, _)
CountLoop(to_count, child_count, flags) ==
    IF to_count = <<>> THEN child_count
    ELSE LET new_kids == NewKids(to_count, flags)
         IN  CountLoop(new_kids, child_count + Len(new_kids), flags)

\* AssetTreeElement.count_expanded_children
count_expanded_children(node, flags) == CountLoop(<<node>>, 0, flags)

\* the walkers of to_walk whose entry_type is wanted, in order
RECURSIVE Collected(_, _)
Collected(to_walk, wanted) ==
    IF to_walk = <<>> THEN <<>>
    ELSE (IF entry_type[Head(to_walk)] = wanted THEN <<Head(to_walk)>> ELSE <<>>)
            \o Collected(Tail(to_walk), wanted)

\* the concatenation of list_folder over to_walk
RECURSIVE Kids(_)
Kids(to_walk) ==
    IF to_walk = <<>> THEN <<>>
    ELSE list_folder(Head(to_walk)) \o Kids(Tail(to_walk))

\* the while loop of collect_children: one level of the tree per round
RECURSIVE WalkLoop(_, _, _)
WalkLoop(to_walk, collected, wanted) ==
    IF to_walk = <<>> THEN collected
    ELSE WalkLoop(Kids(to_walk), collected \o Collected(to_walk, wanted), wanted)

\* AssetTreeElement.collect_children
collect_children(node, wanted) == WalkLoop(<<node>>, <<>>, wanted)

\* the files of the index
Files == {node \in Nodes : entry_type[node] = "entry:file"}

\* the for loop of extract_entry over the collected files.  A file is named
\* by its node: objects holds the files whose object (objects/<hash>) is
\* there to copy, extracted the files whose destination exists.
RECURSIVE ExtractLoop(_, _)
ExtractLoop(files, folder) ==
    IF files = <<>> THEN folder
    ELSE LET file == Head(files)
         IN  IF file \in folder.extracted
             THEN folder                            \* destination.exists(): return
             ELSE IF file \in folder.objects
             THEN ExtractLoop(Tail(files),          \* shutil.copy
                      [folder EXCEPT !.extracted = folder.extracted \cup {file}])
             ELSE ExtractLoop(Tail(files), folder)  \* except Exception: logged

\* AssetIndexBrowser.extract_entry
extract_entry(asset_file, folder) ==
    ExtractLoop(collect_children(asset_file, "entry:file"), folder)

----------------------------------------------------------------------------
(* Style rules and the rendering of the list view.                          *)

\* the attributes getattr finds on an entry: tree nodes carry entry_type and
\* files also entry_hash; any other list element has only its name
HasAttr(entry, key) ==
    /\ entry \in Nodes
    /\ \/ key = "entry_type"
       \/ key = "entry_hash" /\ entry_type[entry] = "entry:file"

GetAttr(entry, key) ==
    IF key = "entry_type" THEN entry_type[entry] ELSE "hash"

\* match that skips a key the entry does not have
RECURSIVE MatchItems_MissingKeySkipped(_, _)
MatchItems_MissingKeySkipped(items, target_object) ==
    IF items = <<>> THEN TRUE
    ELSE IF ~HasAttr(target_object, Head(items)[1])
    THEN MatchItems_MissingKeySkipped(Tail(items), target_object)
    ELSE IF GetAttr(target_object, Head(items)[1]) # Head(items)[2] THEN FALSE
    ELSE MatchItems_MissingKeySkipped(Tail(items), target_object)

\* ListView.StyleRule.match: predicate is the sequence of the dict's items
RECURSIVE MatchItems(_, _)
MatchItems(items, target_object) ==
    IF items = <<>> THEN TRUE
    ELSE IF ~HasAttr(target_object, Head(items)[1]) THEN FALSE   \* AttributeError
    ELSE IF GetAttr(target_object, Head(items)[1]) # Head(items)[2] THEN FALSE
    ELSE MatchItems(Tail(items), target_object)

match(rule, target_object) == MatchItems(rule.predicate, target_object)

\* the rule loop of refresh_contents: object_color of an entry
RECURSIVE ObjectColor(_, _)
ObjectColor(rules, entry) ==
    IF rules = <<>> THEN 0
    ELSE IF match(Head(rules), entry) THEN Head(rules).color
    ELSE ObjectColor(Tail(rules), entry)

\* a curses attribute: A_REVERSE or not, and the colour pair (0 is the default)
A_REVERSE == [reverse |-> TRUE, pair |-> 0]

color_pair(n) == [reverse |-> FALSE, pair |-> n]

\* the attribute refresh_contents gives row index of the viewport
RowAttribute(index, c, offset, object_color) ==
    IF index = c - offset THEN A_REVERSE ELSE color_pair(object_color)

\* what refresh_contents draws: one row per entry of
\* list[scroll_offset : scroll_offset + max_height]
Rendered(l, c, offset, height, rules) ==
    LET viewport == PySlice(l, offset, offset + height)
    IN  [k \in 1..Len(viewport) |->
            [entry |-> viewport[k],
             attribute |-> RowAttribute(k - 1, c, offset, ObjectColor(rules, viewport[k]))]]

\* ListView.refresh_contents, called last by the methods below
refresh_contents ==
    window' = Rendered(list', cursor', scroll_offset', max_height', styles)

----------------------------------------------------------------------------
(* The operations of ListView.                                              *)

NoArg == [name |-> "none", items |-> <<>>, n |-> 0]

Call(name, items, n) == [name |-> name, items |-> items, n |-> n]

NoResult == [raised |-> "none", value |-> 0]

\* the loop of insert_items: list.insert(cursor + offset, item), offset from 1
RECURSIVE InsertLoop(_, _, _, _)
InsertLoop(l, c, new_list, offset) ==
    IF offset > Len(new_list) THEN l
    ELSE InsertLoop(PyInsert(l, c + offset, new_list[offset]), c, new_list, offset + 1)

\* insert_items with enumerate(new_list) counting from 0
InsertedList_StartZero(l, c, new_list) == InsertLoop(l, c - 1, new_list, 1)

InsertedList(l, c, new_list) == InsertLoop(l, c, new_list, 1)

\* collapse_items whose second slice starts one row early
CollapsedList_KeepsLastChild(l, c, item_count) ==
    PySlice(l, 0, c + 1) \o PySlice(l, c + item_count, Len(l))

\* collapse_items whose first slice stops before the cursor row
CollapsedList_DropsCursorRow(l, c, item_count) ==
    PySlice(l, 0, c) \o PySlice(l, c + 1 + item_count, Len(l))

\* the slice expression of collapse_items
CollapsedList(l, c, item_count) ==
    PySlice(l, 0, c + 1) \o PySlice(l, c + 1 + item_count, Len(l))

set_list(new_list) ==
    /\ list' = new_list
    /\ cursor' = clamp(cursor, 0, Len(new_list) - 1)
    /\ op' = Call("set_list", new_list, 0)
    /\ result' = NoResult
    /\ UNCHANGED <<scroll_offset, max_height>>
    /\ refresh_contents

insert_items(new_list) ==
    /\ list' = InsertedList(list, cursor, new_list)
    /\ cursor' = clamp(cursor, 0, Len(list') - 1)
    /\ op' = Call("insert_items", new_list, 0)
    /\ result' = NoResult
    /\ UNCHANGED <<scroll_offset, max_height>>
    /\ refresh_contents

collapse_items(item_count) ==
    /\ list' = CollapsedList(list, cursor, item_count)
    /\ cursor' = clamp(cursor, 0, Len(list') - 1)
    /\ op' = Call("collapse_items", <<>>, item_count)
    /\ result' = NoResult
    /\ UNCHANGED <<scroll_offset, max_height>>
    /\ refresh_contents

\* prev that scrolls one row too late
prev_ScrollsLate ==
    /\ op' = Call("prev", <<>>, 0)
    /\ result' = NoResult
    /\ UNCHANGED <<list, max_height>>
    /\ IF list # <<>> /\ cursor + 1 >= Len(list)
       THEN UNCHANGED <<cursor, scroll_offset, window>>      \* return
       ELSE /\ IF list # <<>>
               THEN /\ cursor' = cursor + 1
                    /\ scroll_offset' = IF cursor' - scroll_offset > max_height
                                        THEN scroll_offset + 1 ELSE scroll_offset
               ELSE UNCHANGED <<cursor, scroll_offset>>
            /\ refresh_contents

\* ListView.prev moves the cursor DOWN the list (the browser binds it to KEY_DOWN)
prev ==
    /\ op' = Call("prev", <<>>, 0)
    /\ result' = NoResult
    /\ UNCHANGED <<list, max_height>>
    /\ IF list # <<>> /\ cursor + 1 >= Len(list)
       THEN UNCHANGED <<cursor, scroll_offset, window>>      \* return
       ELSE /\ IF list # <<>>
               THEN /\ cursor' = cursor + 1
                    /\ scroll_offset' = IF cursor' - scroll_offset >= max_height
                                        THEN scroll_offset + 1 ELSE scroll_offset
               ELSE UNCHANGED <<cursor, scroll_offset>>
            /\ refresh_contents

\* next that scrolls one row too early
next_ScrollsEarly ==
    /\ op' = Call("next", <<>>, 0)
    /\ result' = NoResult
    /\ UNCHANGED <<list, max_height>>
    /\ IF list # <<>> /\ cursor - 1 < 0
       THEN UNCHANGED <<cursor, scroll_offset, window>>
       ELSE /\ IF list # <<>>
               THEN /\ cursor' = cursor - 1
                    /\ scroll_offset' = IF cursor' - scroll_offset <= 0
                                        THEN scroll_offset - 1 ELSE scroll_offset
               ELSE UNCHANGED <<cursor, scroll_offset>>
            /\ refresh_contents

\* next that wraps from the first row to the last
next_WrapsAround ==
    /\ op' = Call("next", <<>>, 0)
    /\ result' = NoResult
    /\ UNCHANGED <<list, max_height>>
    /\ IF list # <<>>
       THEN /\ cursor' = IF cursor - 1 < 0 THEN Len(list) - 1 ELSE cursor - 1
            /\ scroll_offset' = IF cursor' - scroll_offset < 0
                                THEN scroll_offset - 1 ELSE scroll_offset
       ELSE UNCHANGED <<cursor, scroll_offset>>
    /\ refresh_contents

\* ListView.next moves the cursor UP the list (the browser binds it to KEY_UP)
next ==
    /\ op' = Call("next", <<>>, 0)
    /\ result' = NoResult
    /\ UNCHANGED <<list, max_height>>
    /\ IF list # <<>> /\ cursor - 1 < 0
       THEN UNCHANGED <<cursor, scroll_offset, window>>      \* return
       ELSE /\ IF list # <<>>
               THEN /\ cursor' = cursor - 1
                    /\ scroll_offset' = IF cursor' - scroll_offset < 0
                                        THEN scroll_offset - 1 ELSE scroll_offset
               ELSE UNCHANGED <<cursor, scroll_offset>>
            /\ refresh_contents

\* get_value without the guard on the empty list
GetValue_NoGuard(l, c) ==
    [raised |-> "none", value |-> IF l = <<>> THEN 0 ELSE l[PyIndex(c, Len(l)) + 1]]

\* the outcome of ListView.get_value on a list l with cursor c
GetValue(l, c) ==
    IF l = <<>> THEN [raised |-> "IndexError", value |-> 0]
    ELSE [raised |-> "none", value |-> l[PyIndex(c, Len(l)) + 1]]

get_value ==
    /\ result' = GetValue(list, cursor)
    /\ op' = Call("get_value", <<>>, 0)
    /\ UNCHANGED <<list, cursor, scroll_offset, max_height, window>>

\* DisplayPanel.recalculate_layout of the list view on a terminal of the given
\* height: it stores max_height, clears the window and draws only the border
recalculate_layout(terminal_height) ==
    /\ max_height' = LayoutMaxHeight(ListViewProperties, terminal_height)
    /\ window' = <<>>
    /\ op' = Call("recalculate_layout", <<>>, terminal_height)
    /\ result' = NoResult
    /\ UNCHANGED <<list, cursor, scroll_offset>>

\* Colors.get_color as StyleRule.__init__ calls it: the pair registered for
\* the foreground, or the next free pair (pair 0 is the default colour)
get_color(forgeround, rules) ==
    IF \E i \in 1..Len(rules) : rules[i].forgeround = forgeround
    THEN rules[CHOOSE i \in 1..Len(rules) : rules[i].forgeround = forgeround].color
    ELSE Cardinality({rules[i].forgeround : i \in 1..Len(rules)}) + 1

\* ListView.set_style: it appends the rule and does not redraw
set_style(color_name, predicate) ==
    /\ styles' = Append(styles, [forgeround |-> color_name,
                                 color |-> get_color(color_name, styles),
                                 predicate |-> predicate])
    /\ op' = Call("set_style", <<>>, 0)
    /\ result' = NoResult
    /\ UNCHANGED <<list, cursor, scroll_offset, max_height, window>>

----------------------------------------------------------------------------
(* The preview Panel.                                                       *)

\* what a Panel's window shows: a text drawn with an alignment
Drawn(text, horizontal_align, vertical_align) ==
    [text |-> text, horizontal |-> horizontal_align, vertical |-> vertical_align]

\* a cleared window
Blank == Drawn("", "LEFT", "TOP")

\* Panel.__init__.  last_align is the alignment the last set_text was called
\* with, which the Panel of src/display.py does not keep.  The tools fields
\* are the same Panel by src/tools/display.py: its text_align_horizontal /
\* text_align_vertical and what its window shows.
NewPanel ==
    [contents |-> "", shown |-> Blank, last_align |-> <<"LEFT", "TOP">>,
     tools_align |-> <<"LEFT", "TOP">>, tools_shown |-> Blank]

\* Panel.set_text: store the contents and draw them.  In src/tools/display.py
\* set_text stores the alignment, draws, and sets the alignment back to
\* LEFT / TOP.
set_text(new_text, horizontal_align, vertical_align) ==
    preview' = [contents |-> new_text,
                shown |-> Drawn(new_text, horizontal_align, vertical_align),
                last_align |-> <<horizontal_align, vertical_align>>,
                tools_align |-> <<"LEFT", "TOP">>,
                tools_shown |-> Drawn(new_text, horizontal_align, vertical_align)]

\* DisplayPanel.recalculate_layout of the preview: window.clear(), box(),
\* refresh().  DisplayManager.on_resize of src/tools/display.py goes on to
\* preview.refresh_contents(), which draws with the stored alignment.
preview_recalculate_layout ==
    preview' = [preview EXCEPT
                    !.shown = Blank,
                    !.tools_shown = Drawn(preview.contents, preview.tools_align[1],
                                          preview.tools_align[2])]

SelectAFile == "Select a file to preview"

\* what get_file_preview can return for a file: <<file_type, file_preview>>
FilePreviews ==
    {<<"none", "">>, <<"unknown", "">>, <<"image", "">>, <<"text", "">>,
     <<"text", "file contents">>}

\* the text on_key shows for a file
PreviewText(file_preview) ==
    IF file_preview[2] = ""
    THEN IF file_preview[1] = "none"
         THEN "This file cannot be previewed because this file does not exist."
         ELSE IF file_preview[1] = "unknown"
         THEN "This file cannot be previewed because it's format is not recognized."
         ELSE "This file cannot be previewed because it's not a text file"
    ELSE file_preview[2]

----------------------------------------------------------------------------
(* AssetIndexBrowser.on_key, for the keys that reach the list view.         *)

KeyCodes == {"KEY_UP", "KEY_DOWN", "+", " ", "\n"}

\* the branch of on_key for "+", " " and "\n"; file_preview is what
\* get_file_preview returns when the selected entry is a file
on_key_select(file_preview) ==
    LET selected == GetValue(list, cursor)
        selected_file == selected.value
    IN  IF selected.raised # "none"
        THEN \* get_selected_file raised: the handler ends here
             /\ set_text(SelectAFile, "CENTER", "CENTER")
             /\ result' = selected
             /\ op' = Call("get_value", <<>>, 0)
             /\ UNCHANGED <<list, cursor, scroll_offset, max_height, window, expanded>>
        ELSE IF entry_type[selected_file] = "entry:directory"
        THEN /\ set_text(SelectAFile, "CENTER", "CENTER")
             /\ IF ~expanded[selected_file]
                THEN /\ insert_items(list_folder(selected_file))
                     /\ expanded' = [expanded EXCEPT ![selected_file] = TRUE]
                ELSE /\ collapse_items(count_expanded_children(selected_file, expanded))
                     /\ expanded' = [expanded EXCEPT ![selected_file] = FALSE]
        ELSE \* a file: only the preview panel changes
             /\ IF file_preview[2] = ""
                THEN set_text(PreviewText(file_preview), "CENTER", "CENTER")
                ELSE set_text(PreviewText(file_preview), "LEFT", "TOP")
             /\ result' = selected
             /\ op' = Call("get_value", <<>>, 0)
             /\ UNCHANGED <<list, cursor, scroll_offset, max_height, window, expanded>>

\* the branch of on_key for "X": get_selected_file, then extract_entry
on_key_extract ==
    LET selected == GetValue(list, cursor)
    IN  /\ asset_folder' = IF selected.raised # "none"
                           THEN asset_folder    \* get_selected_file raised
                           ELSE extract_entry(selected.value, asset_folder)
        /\ result' = selected
        /\ op' = Call("extract_entry", <<>>, 0)
        /\ UNCHANGED <<list, cursor, scroll_offset, max_height, window, expanded,
                       preview>>

on_key(key_code) ==
    /\ CASE key_code = "KEY_UP" ->
                next /\ UNCHANGED <<expanded, preview, asset_folder>>
         [] key_code = "KEY_DOWN" ->
                prev /\ UNCHANGED <<expanded, preview, asset_folder>>
         [] key_code \in {"+", " ", "\n"} ->
                /\ \E file_preview \in FilePreviews : on_key_select(file_preview)
                /\ UNCHANGED asset_folder
         [] key_code = "X" -> on_key_extract
         [] OTHER -> UNCHANGED <<list, cursor, scroll_offset, max_height, window,
                                 op, result, expanded, preview, asset_folder>>
    /\ UNCHANGED <<styles, inputVars, panel, drawVars, threadVars, layout>>

\* DisplayManager.on_resize (src/display.py): recalculate_layout of every
\* panel; nothing redraws the panels' contents afterwards
on_resize(terminal_height) ==
    /\ recalculate_layout(terminal_height)
    /\ preview_recalculate_layout
    /\ UNCHANGED <<expanded, styles, inputVars, panel, drawVars, threadVars, appVars>>

----------------------------------------------------------------------------
(* The InputManager.                                                        *)

\* the objects handed to add_listener / remove_listener: the two listeners of
\* the browser, and two instances of a listener class whose __hash__ is
\* computed from its (equal) fields
ListenerObjects == {"display_manager", "browser", "other_1", "other_2"}

\* hash(listener): object.__hash__ tells the browser's listeners apart; the
\* two instances with a value-based __hash__ hash alike
hash(listener) ==
    CASE listener = "display_manager" -> "hash_dm"
      [] listener = "browser" -> "hash_browser"
      [] OTHER -> "hash_other"

\* a dict is the sequence of its <<key, value>> items in insertion order
DictHas(dict, key) == \E i \in 1..Len(dict) : dict[i][1] = key

DictValues(dict) == [i \in 1..Len(dict) |-> dict[i][2]]

\* dict.pop(key) of a key that is present
DictPop(dict, key) ==
    LET i == CHOOSE j \in 1..Len(dict) : dict[j][1] = key
    IN  SubSeq(dict, 1, i - 1) \o SubSeq(dict, i + 1, Len(dict))

Raised(error) == [raised |-> error, value |-> 0]

\* InputManager.add_listener
add_listener(listener) ==
    LET listener_hash == hash(listener)
    IN  /\ IF DictHas(listeners, listener_hash)
           THEN /\ result' = Raised("KeyError")       \* "Listener already bound!"
                /\ UNCHANGED listeners
           ELSE /\ result' = NoResult
                /\ listeners' = Append(listeners, <<listener_hash, listener>>)
        /\ op' = Call("add_listener", <<listener>>, 0)
        /\ UNCHANGED <<running, thread, delivered, after_stop>>

\* InputManager.remove_listener
remove_listener(listener) ==
    LET listener_hash == hash(listener)
    IN  /\ IF DictHas(listeners, listener_hash)
           THEN /\ result' = NoResult
                /\ listeners' = DictPop(listeners, listener_hash)
           ELSE /\ result' = Raised("KeyError")       \* dict.pop of a missing key
                /\ UNCHANGED listeners
        /\ op' = Call("remove_listener", <<listener>>, 0)
        /\ UNCHANGED <<running, thread, delivered, after_stop>>

\* what get_wch returns: an int (a function key or KEY_RESIZE) or a str
IntKey(code) == [is_int |-> TRUE, code |-> code, char |-> ""]

CharKey(char) == [is_int |-> FALSE, code |-> 0, char |-> char]

\* curses.KEY_UP, curses.KEY_RESIZE
KeyCodesInt == {259, 410}

Chars == {"q", "+"}

RawEvents == {IntKey(code) : code \in KeyCodesInt} \cup {CharKey(char) : char \in Chars}

\* curses.keyname(char).decode()
keyname(code) ==
    CASE code = 259 -> "KEY_UP"
      [] code = 410 -> "KEY_RESIZE"

\* str.upper
upper(char) == IF char = "q" THEN "Q" ELSE char

\* key_name that forgets char.upper()
KeyName_NotUppercased(char) == IF char.is_int THEN keyname(char.code) ELSE char.char

\* key_name of dispatch_event
KeyName(char) == IF char.is_int THEN keyname(char.code) ELSE upper(char.char)

\* how a callback can end: it returns, it raises, or it calls InputManager.stop
\* (through DisplayManager.stop) and returns
CallbackOutcomes(listener, key_name) ==
    CASE listener = "display_manager" ->
            \* on_key is `pass`; on_resize runs recalculate_layout
            IF key_name = "KEY_RESIZE" THEN {"return", "raise"} ELSE {"return"}
      [] listener = "browser" ->
            \* on_resize(self, key_code) is called without key_code: TypeError;
            \* on_key("Q") is terminate()
            IF key_name = "KEY_RESIZE" THEN {"raise"}
            ELSE IF key_name = "Q" THEN {"stop"}
            ELSE {"return", "raise"}
      [] OTHER -> {"return", "raise", "stop"}

\* the callback dispatch_event makes on a listener
CallOf(listener, key_name, outcome) ==
    [listener |-> listener,
     callback |-> IF key_name = "KEY_RESIZE" THEN "on_resize" ELSE "on_key",
     key |-> IF key_name = "KEY_RESIZE" THEN "" ELSE key_name,
     outcome |-> outcome[listener]]

\* the for loop of dispatch_event if the except clause were missing
RECURSIVE DispatchLoop_StopsAtRaise(_, _, _)
DispatchLoop_StopsAtRaise(values, key_name, outcome) ==
    IF values = <<>> THEN <<>>
    ELSE IF outcome[Head(values)] = "raise"
    THEN <<CallOf(Head(values), key_name, outcome)>>
    ELSE <<CallOf(Head(values), key_name, outcome)>>
            \o DispatchLoop_StopsAtRaise(Tail(values), key_name, outcome)

\* the for loop of dispatch_event over listeners.values(): an exception of a
\* callback is caught and logged, and the loop goes on
RECURSIVE DispatchLoop(_, _, _)
DispatchLoop(values, key_name, outcome) ==
    IF values = <<>> THEN <<>>
    ELSE <<CallOf(Head(values), key_name, outcome)>>
            \o DispatchLoop(Tail(values), key_name, outcome)

\* the loop of run that never looks at the flag
LoopCondition_Ignored(flag) == "blocked"

\* `while self.running:` of run: block in the next get_wch, or leave the loop
LoopCondition(flag) == IF flag THEN "blocked" ELSE "exited"

\* Thread.start: run() reaches its loop
start ==
    /\ thread = "new"
    /\ thread' = LoopCondition(running)
    /\ op' = Call("start", <<>>, 0)
    /\ result' = NoResult
    /\ UNCHANGED <<listeners, running, delivered, after_stop>>

\* InputManager.stop, called between two events
stop ==
    /\ running' = FALSE
    /\ op' = Call("stop", <<>>, 0)
    /\ result' = NoResult
    /\ UNCHANGED <<listeners, thread, delivered, after_stop>>

\* one iteration of run: get_wch returns char, dispatch_event calls every
\* listener, and the loop condition is evaluated again
dispatch_event(char, outcome) ==
    LET key_name == KeyName(char)
        calls == DispatchLoop(DictValues(listeners), key_name, outcome)
    IN  /\ thread = "blocked"
        /\ delivered' = calls
        /\ running' = (running /\ \A i \in 1..Len(calls) : calls[i].outcome # "stop")
        /\ thread' = LoopCondition(running')
        /\ after_stop' = IF running THEN after_stop ELSE after_stop + 1
        /\ op' = Call("dispatch_event", <<char>>, 0)
        /\ result' = NoResult
        /\ UNCHANGED listeners

\* the outcomes the callbacks of the registered listeners can have
Outcomes(key_name) ==
    LET registered == {listeners[i][2] : i \in 1..Len(listeners)}
    IN  {outcome \in [registered -> {"return", "raise", "stop"}] :
            \A listener \in registered :
                outcome[listener] \in CallbackOutcomes(listener, key_name)}

----------------------------------------------------------------------------
(* Spec: the ListView on its own.                                           *)

Prefix(base, k) == [i \in 1..k |-> base + i]

\* the lists handed to set_list: rows 1, 2, 3, ...
NewLists == {Prefix(0, k) : k \in 0..MaxNewLen}

\* the lists handed to insert_items: rows 11, 12, ...
ChildLists == {Prefix(10, k) : k \in 0..MaxInsertLen}

NoneExpanded == [node \in Nodes |-> FALSE]

\* InputManager.__init__
NoListeners == <<>>

NoPanel == [properties |-> <<>>, terminal_size |-> <<>>, window |-> <<>>,
            tools_window |-> <<>>]

\* no Panel is being drawn and nothing has been written yet
NoTextPanel ==
    [box_horizontal |-> FALSE, box_vertical |-> FALSE, max_width |-> 0,
     max_height |-> 0, contents |-> <<>>]

NoFrame ==
    [target |-> "none", writes |-> <<>>, boxed |-> FALSE, refreshed |-> FALSE,
     raised |-> "none"]

\* no for loop over the listeners is in progress
NoIterator == [pos |-> 0, size |-> 0, key_name |-> ""]

\* the DisplayManager has laid out no panel
NoLayout == [terminal_size |-> <<>>, list_view |-> <<>>, preview |-> <<>>,
             status_panel |-> <<>>]

\* nothing is known of the files under asset_folder
NoAssetFolder == [objects |-> {}, extracted |-> {}]

\* the variables of the drawing and threading models, when a specification
\* does not use them
Unused ==
    /\ text_panel = NoTextPanel
    /\ frame = NoFrame
    /\ main = "none"
    /\ iterator = NoIterator
    /\ terminal = "curses"
    /\ layout = NoLayout
    /\ asset_folder = NoAssetFolder

\* the state of everything but the list view, as long as nothing uses it
RestInit ==
    /\ expanded = NoneExpanded
    /\ styles = <<>>
    /\ preview = NewPanel
    /\ listeners = NoListeners
    /\ running = TRUE
    /\ thread = "new"
    /\ delivered = <<>>
    /\ after_stop = 0
    /\ panel = NoPanel
    /\ Unused

\* a step of the list view alone
ListViewOnly ==
    UNCHANGED <<expanded, styles, preview, inputVars, panel, drawVars, threadVars, appVars>>

\* ListView.__init__
Init ==
    /\ list = <<>>
    /\ cursor = 0
    /\ scroll_offset = 0
    /\ max_height = InitMaxHeight
    /\ window = <<>>
    /\ op = NoArg
    /\ result = NoResult
    /\ RestInit

Next ==
    \/ \E new_list \in NewLists : set_list(new_list) /\ ListViewOnly
    \/ \E new_list \in ChildLists :
            /\ Len(list) + Len(new_list) <= MaxListLen
            /\ insert_items(new_list)
            /\ ListViewOnly
    \/ \E item_count \in 0..MaxCount : collapse_items(item_count) /\ ListViewOnly
    \/ prev /\ ListViewOnly
    \/ next /\ ListViewOnly
    \/ get_value /\ ListViewOnly
    \/ \E terminal_height \in TermHeights :
            recalculate_layout(terminal_height) /\ ListViewOnly

Spec == Init /\ [][Next]_vars

----------------------------------------------------------------------------
(* AppSpec: the browser after await_termination has populated the list.     *)

\* the rule await_termination registers: set_style("COLOR_BLUE", {...})
BrowserStyles ==
    <<[forgeround |-> "COLOR_BLUE", color |-> 1,
       predicate |-> <<<<"entry_type", "entry:directory">>>>]>>

\* the listeners DisplayManager.start and await_termination register
BrowserListeners == <<<<"hash_dm", "display_manager">>, <<"hash_browser", "browser">>>>

AppInit ==
    /\ list = list_folder(Root)
    /\ cursor = 0
    /\ scroll_offset = 0
    /\ max_height \in {LayoutMaxHeight(ListViewProperties, h) : h \in TermHeights}
    /\ styles = BrowserStyles
    /\ window = Rendered(list, cursor, scroll_offset, max_height, styles)
    /\ preview = [contents |-> SelectAFile,
                  shown |-> Drawn(SelectAFile, "CENTER", "CENTER"),
                  last_align |-> <<"CENTER", "CENTER">>,
                  tools_align |-> <<"LEFT", "TOP">>,
                  tools_shown |-> Drawn(SelectAFile, "CENTER", "CENTER")]
    /\ expanded = NoneExpanded
    /\ op = Call("set_list", list_folder(Root), 0)
    /\ result = NoResult
    /\ listeners = BrowserListeners
    /\ running = TRUE
    /\ thread = "blocked"
    /\ delivered = <<>>
    /\ after_stop = 0
    /\ panel = NoPanel
    /\ Unused

AppNext ==
    \/ \E key_code \in KeyCodes : on_key(key_code)
    \/ \E terminal_height \in TermHeights : on_resize(terminal_height)

AppSpec == AppInit /\ [][AppNext]_vars

----------------------------------------------------------------------------
(* ExtractSpec: the browser with the files under asset_folder: the user     *)
(* moves, expands folders and extracts the selected entry.                  *)

\* at most one object is missing, at most one destination exists already
AssetFolders ==
    {[objects |-> Files \ missing, extracted |-> existing] :
        missing \in {{}} \cup {{file} : file \in Files},
        existing \in {{}} \cup {{file} : file \in Files}}

ExtractKeys == {"KEY_UP", "KEY_DOWN", "+", "X"}

ExtractInit ==
    /\ list = list_folder(Root)
    /\ cursor = 0
    /\ scroll_offset = 0
    /\ max_height \in {LayoutMaxHeight(ListViewProperties, h) : h \in TermHeights}
    /\ styles = BrowserStyles
    /\ window = Rendered(list, cursor, scroll_offset, max_height, styles)
    /\ preview = [contents |-> SelectAFile,
                  shown |-> Drawn(SelectAFile, "CENTER", "CENTER"),
                  last_align |-> <<"CENTER", "CENTER">>,
                  tools_align |-> <<"LEFT", "TOP">>,
                  tools_shown |-> Drawn(SelectAFile, "CENTER", "CENTER")]
    /\ expanded = NoneExpanded
    /\ op = Call("set_list", list_folder(Root), 0)
    /\ result = NoResult
    /\ listeners = BrowserListeners
    /\ running = TRUE
    /\ thread = "blocked"
    /\ delivered = <<>>
    /\ after_stop = 0
    /\ panel = NoPanel
    /\ text_panel = NoTextPanel
    /\ frame = NoFrame
    /\ main = "none"
    /\ iterator = NoIterator
    /\ terminal = "curses"
    /\ layout = NoLayout
    /\ asset_folder \in AssetFolders

ExtractNext == \E key_code \in ExtractKeys : on_key(key_code)

ExtractSpec == ExtractInit /\ [][ExtractNext]_vars

----------------------------------------------------------------------------
(* Panel geometry: DisplayPanel.get_size of src/display.py, the module the  *)
(* browser imports, and of its refactoring src/tools/display.py.            *)

\* Align.get_offset
get_offset(align, length, max_size) ==
    CASE align \in {"LEFT", "TOP"} -> 0
      [] align = "CENTER" -> (max_size - length) \div 2
      [] align \in {"RIGHT", "BOTTOM"} -> max_size - length

\* DisplayPanel.get_size, horizontal axis: <<calculated_left, calculated_width>>
get_size_horizontal(properties, terminal_width) ==
    LET left == Scaled(properties.left, terminal_width)
        right == Scaled(properties.right, terminal_width)
        width == Scaled(properties.width, terminal_width)
        leftover_width == terminal_width - left - right
    IN  CASE properties.float_horizontal = "LEFT" ->
                <<left, IF width = 0 THEN leftover_width
                                     ELSE Min(leftover_width, width)>>
          [] properties.float_horizontal = "CENTER" ->
                IF width = 0
                THEN <<left, terminal_width - left - right>>
                ELSE <<(terminal_width - Min(leftover_width, width)) \div 2,
                       Min(leftover_width, width)>>
          [] properties.float_horizontal = "RIGHT" ->
                LET calculated_width ==
                        IF width = 0 THEN terminal_width - right ELSE width
                IN  <<terminal_width - calculated_width, calculated_width>>

\* DisplayPanel.get_size: the Window of the panel
get_size(properties, terminal_size) ==
    LET vertical == get_size_vertical(properties, terminal_size.height)
        horizontal == get_size_horizontal(properties, terminal_size.width)
    IN  [width |-> horizontal[2], height |-> vertical[2],
         left |-> horizontal[1], top |-> vertical[1]]

\* scale of src/tools/display.py
scale(number, factor) ==
    IF number.is_int THEN number.num ELSE (number.num * factor) \div number.den

\* one axis of get_size of src/tools/display.py: <<position, size>>
tools_get_size_axis(near_c, far_c, size_c, anchor, dimension) ==
    LET near == scale(near_c, dimension)
        far == scale(far_c, dimension)
        size == scale(size_c, dimension)
        offset == CASE anchor \in {"LEFT", "TOP"} -> near
                    [] anchor \in {"RIGHT", "BOTTOM"} -> 0 - far
                    [] OTHER -> 0
        leftover == dimension - near - far
        calculated == IF size = 0 THEN leftover ELSE Min(leftover, size)
    IN  <<get_offset(anchor, calculated, dimension) + offset, calculated>>

\* DisplayPanel.get_size of src/tools/display.py
tools_get_size(properties, terminal_size) ==
    LET vertical == tools_get_size_axis(properties.top, properties.bottom,
                        properties.height, properties.float_vertical,
                        terminal_size.height)
        horizontal == tools_get_size_axis(properties.left, properties.right,
                        properties.width, properties.float_horizontal,
                        terminal_size.width)
    IN  [width |-> horizontal[2], height |-> vertical[2],
         left |-> horizontal[1], top |-> vertical[1]]

\* the values set_constraints is given: cells or a fraction of the dimension
Constraints == {Cells(0), Cells(2), Fraction(2, 5)}

\* the values set_size is given (it ignores 0): cells or a fraction; a small
\* fraction of a small dimension is floored to 0, the automatic size
Sizes == {Cells(3), Fraction(1, 10), Fraction(1, 1)}

\* the DisplayPanelProperties a panel is built with
PanelProperties ==
    [top : Constraints, bottom : Constraints, height : Sizes,
     left : Constraints, right : Constraints, width : Sizes,
     float_vertical : {"TOP", "CENTER", "BOTTOM"},
     float_horizontal : {"LEFT", "CENTER", "RIGHT"}]

TerminalSize(height, width) == [height |-> height, width |-> width]

TermWidths == MinTermWidth..MaxTermWidth

\* the panel laid out on a terminal: its Window by either module
LaidOut(properties, terminal_size) ==
    [properties |-> properties, terminal_size |-> terminal_size,
     window |-> get_size(properties, terminal_size),
     tools_window |-> tools_get_size(properties, terminal_size)]

\* DisplayPanel.__init__ sizes the window against TerminalSize(10, 10)
NewDisplayPanel(properties) == LaidOut(properties, TerminalSize(10, 10))

\* DisplayPanel.recalculate_layout: the window is moved and resized to get_size
panel_recalculate_layout(terminal_size) ==
    /\ panel' = LaidOut(panel.properties, terminal_size)
    /\ op' = Call("panel_recalculate_layout", <<>>, 0)
    /\ UNCHANGED <<list, cursor, scroll_offset, max_height, window, result,
                   expanded, styles, preview, inputVars, drawVars, threadVars, appVars>>

----------------------------------------------------------------------------
(* Drawing a Panel: Panel.set_text / refresh_contents, begin_writing,       *)
(* add_string and box of src/display.py, and DisplayManager.draw_title.     *)
(* A line of text is the sequence of the lengths of its words; no word is   *)
(* longer than the panel is wide, so textwrap.wrap never breaks a word.     *)

\* the lines of the texts: a blank line, one word, two words
Lines == {<<>>, <<2>>, <<2, 2>>}

\* str.splitlines() of the texts set_text is called with
Contents == UNION {[1..n -> Lines] : n \in 0..MaxLines}

\* len() of a line: its words and the single spaces between them
RECURSIVE LineLen(_)
LineLen(words) ==
    IF words = <<>> THEN 0
    ELSE IF Len(words) = 1 THEN Head(words)
    ELSE Head(words) + 1 + LineLen(Tail(words))

\* the loop of textwrap.wrap: cur_line is filled with words while they fit
RECURSIVE WrapLoop(_, _, _)
WrapLoop(words, cur_line, width) ==
    IF words = <<>>
    THEN IF cur_line = <<>> THEN <<>> ELSE <<cur_line>>
    ELSE IF cur_line = <<>>
    THEN WrapLoop(Tail(words), <<Head(words)>>, width)
    ELSE IF LineLen(cur_line) + 1 + Head(words) <= width
    THEN WrapLoop(Tail(words), Append(cur_line, Head(words)), width)
    ELSE <<cur_line>> \o WrapLoop(words, <<>>, width)

\* textwrap.wrap(line, width): a blank line wraps to no line at all
wrap(line, width) == WrapLoop(line, <<>>, width)

\* viewport.extend(textwrap.wrap(line, max_width)) for every line of lines
RECURSIVE WrapAll(_, _)
WrapAll(lines, width) ==
    IF lines = <<>> THEN <<>>
    ELSE wrap(Head(lines), width) \o WrapAll(Tail(lines), width)

\* the viewport of Panel.refresh_contents
Viewport(contents, width, height) ==
    PySlice(WrapAll(PySlice(contents, 0, height), width), 0, height)

\* the size of the curses window of a panel, of which recalculate_layout took
\* max_width and max_height
WindowHeight(p) == p.max_height + (IF p.box_horizontal THEN 2 ELSE 0)

WindowWidth(p) == p.max_width + (IF p.box_vertical THEN 2 ELSE 0)

\* window.addstr(y, x, string): curses.error when the position is outside the
\* window or the string runs into or past the window's last cell
addstr(y, x, length, height, width) ==
    IF y < 0 \/ y >= height \/ x < 0 \/ x >= width THEN "curses.error"
    ELSE IF y = height - 1 /\ x + length >= width THEN "curses.error"
    ELSE "ok"

\* DisplayPanel.add_string: the position it hands to addstr; a curses.error
\* of addstr is swallowed
add_string(p, y, x, string) ==
    LET y_window == y + (IF ~p.box_vertical THEN 1 ELSE 0)
        x_window == x + (IF ~p.box_horizontal THEN 1 ELSE 0)
    IN  [row |-> y, col |-> x, y |-> y_window, x |-> x_window, text |-> string,
         outcome |-> addstr(y_window, x_window, LineLen(string),
                            WindowHeight(p), WindowWidth(p))]

\* the for loop of Panel.refresh_contents over the viewport
RECURSIVE WriteLoop(_, _, _, _)
WriteLoop(p, viewport, lineno, horizontal_align) ==
    IF viewport = <<>> THEN <<>>
    ELSE <<add_string(p, lineno,
                      get_offset(horizontal_align, LineLen(Head(viewport)), p.max_width),
                      Head(viewport))>>
            \o WriteLoop(p, Tail(viewport), lineno + 1, horizontal_align)

\* Panel.refresh_contents inside begin_writing: clear, the writes, box, refresh
Panel_refresh_contents(p, horizontal_align, vertical_align) ==
    LET viewport == Viewport(p.contents, p.max_width, p.max_height)
        lineno == get_offset(vertical_align, Len(viewport), p.max_height)
    IN  [target |-> "panel",
         writes |-> WriteLoop(p, viewport, lineno, horizontal_align),
         boxed |-> TRUE, refreshed |-> TRUE, raised |-> "none"]

\* Panel.set_text
Panel_set_text(new_text, horizontal_align, vertical_align) ==
    /\ text_panel.max_width > 0
    /\ text_panel' = [text_panel EXCEPT !.contents = new_text]
    /\ frame' = Panel_refresh_contents(text_panel', horizontal_align, vertical_align)
    /\ op' = Call("set_text", <<horizontal_align, vertical_align>>, 0)
    /\ UNCHANGED <<list, cursor, scroll_offset, max_height, window, result,
                   expanded, styles, preview, inputVars, panel, threadVars, appVars>>

\* len(self.title) of the titles the DisplayManager draws: a short one and
\* "Window Title"
TitleLengths == {4, 12}

\* DisplayManager.set_title / draw_title on a terminal of the given width:
\* the hline, then addstr on stdscr, whose curses.error is not caught, then
\* the refresh
draw_title(title_length, terminal_width) ==
    LET title_pos == (terminal_width - title_length - 2) \div 2
        outcome == addstr(0, title_pos, title_length + 2, MinTermHeight, terminal_width)
    IN  /\ frame' = [target |-> "title",
                     writes |-> <<[row |-> 0, col |-> title_pos, y |-> 0,
                                   x |-> title_pos, text |-> <<title_length>>,
                                   outcome |-> outcome]>>,
                     boxed |-> FALSE,
                     refreshed |-> outcome = "ok",
                     raised |-> IF outcome = "ok" THEN "none" ELSE outcome]
        /\ op' = Call("draw_title", <<>>, title_length)
        /\ UNCHANGED <<list, cursor, scroll_offset, max_height, window, result,
                       expanded, styles, preview, inputVars, panel, text_panel,
                       threadVars, appVars>>

\* the sizes of the panels' curses windows
WindowHeights == 3..4

WindowWidths == 4..5

\* a Panel after DisplayPanel.recalculate_layout gave its window a size
BuiltPanel(box_horizontal, box_vertical, height, width) ==
    [box_horizontal |-> box_horizontal, box_vertical |-> box_vertical,
     max_width |-> width - (IF box_vertical THEN 2 ELSE 0),
     max_height |-> height - (IF box_horizontal THEN 2 ELSE 0),
     contents |-> <<>>]

----------------------------------------------------------------------------
(* DrawSpec: a Panel with any borders that is given texts, and the title    *)
(* line of the DisplayManager.                                              *)

DrawInit ==
    /\ list = <<>>
    /\ cursor = 0
    /\ scroll_offset = 0
    /\ max_height = InitMaxHeight
    /\ window = <<>>
    /\ op = NoArg
    /\ result = NoResult
    /\ expanded = NoneExpanded
    /\ styles = <<>>
    /\ preview = NewPanel
    /\ listeners = NoListeners
    /\ running = TRUE
    /\ thread = "new"
    /\ delivered = <<>>
    /\ after_stop = 0
    /\ panel = NoPanel
    /\ \E box_horizontal \in BOOLEAN, box_vertical \in BOOLEAN :
            \E height \in WindowHeights, width \in WindowWidths :
                text_panel = BuiltPanel(box_horizontal, box_vertical, height, width)
    /\ frame = NoFrame
    /\ main = "none"
    /\ iterator = NoIterator
    /\ terminal = "curses"
    /\ layout = NoLayout
    /\ asset_folder = NoAssetFolder

DrawNext ==
    \/ \E new_text \in Contents :
            \E horizontal_align \in {"LEFT", "CENTER", "RIGHT"} :
                \E vertical_align \in {"TOP", "CENTER", "BOTTOM"} :
                    Panel_set_text(new_text, horizontal_align, vertical_align)
    \/ \E title_length \in TitleLengths :
            \E terminal_width \in TermWidths :
                draw_title(title_length, terminal_width)

DrawSpec == DrawInit /\ [][DrawNext]_vars

----------------------------------------------------------------------------
(* GeomSpec: one DisplayPanel with any properties, on a terminal that is    *)
(* resized.                                                                 *)

GeomInit ==
    /\ list = <<>>
    /\ cursor = 0
    /\ scroll_offset = 0
    /\ max_height = InitMaxHeight
    /\ window = <<>>
    /\ op = NoArg
    /\ result = NoResult
    /\ expanded = NoneExpanded
    /\ styles = <<>>
    /\ preview = NewPanel
    /\ listeners = NoListeners
    /\ running = TRUE
    /\ thread = "new"
    /\ delivered = <<>>
    /\ after_stop = 0
    /\ \E properties \in PanelProperties : panel = NewDisplayPanel(properties)
    /\ Unused

GeomNext ==
    \E height \in TermHeights :
        \E width \in TermWidths :
            panel_recalculate_layout(TerminalSize(height, width))

GeomSpec == GeomInit /\ [][GeomNext]_vars

----------------------------------------------------------------------------
(* LayoutSpec: the three panels DisplayManager.start builds, laid out on a  *)
(* terminal that is resized.                                                *)

MaxLayoutHeight == 12

MaxLayoutWidth == 12

\* the class attributes of DisplayPanelProperties
DefaultProperties ==
    [top |-> Cells(1), left |-> Cells(0), right |-> Cells(0), bottom |-> Cells(1),
     width |-> Fraction(1, 1), height |-> Fraction(1, 1),
     float_horizontal |-> "LEFT", float_vertical |-> "TOP"]

\* "File view": set_constraints(bottom=3), set_size(width=0.4)
list_view_properties ==
    [DefaultProperties EXCEPT !.bottom = Cells(3), !.width = Fraction(2, 5)]

\* "File preview": set_constraints(left=0.4, bottom=3), set_size(width=0.6),
\* set_alignment(horizontal=Align.RIGHT)
preview_properties ==
    [DefaultProperties EXCEPT !.left = Fraction(2, 5), !.bottom = Cells(3),
                              !.width = Fraction(3, 5),
                              !.float_horizontal = "RIGHT"]

\* the status panel without its set_alignment(vertical=Align.BOTTOM)
status_panel_properties_FloatsTop ==
    [DefaultProperties EXCEPT !.bottom = Cells(0), !.height = Cells(3)]

\* "Status panel": set_constraints(bottom=0),
\* set_alignment(vertical=Align.BOTTOM), set_size(height=3)
status_panel_properties ==
    [DefaultProperties EXCEPT !.bottom = Cells(0), !.float_vertical = "BOTTOM",
                              !.height = Cells(3)]

\* the sizes getmaxyx reports
LayoutSizes ==
    {TerminalSize(height, width) :
        height \in 1..MaxLayoutHeight, width \in 1..MaxLayoutWidth}

\* the three panels after recalculate_layout(terminal_size) of each
Layout(terminal_size) ==
    [terminal_size |-> terminal_size,
     list_view |-> LaidOut(list_view_properties, terminal_size),
     preview |-> LaidOut(preview_properties, terminal_size),
     status_panel |-> LaidOut(status_panel_properties, terminal_size)]

\* DisplayManager.recalculate_layout: getmaxyx, then recalculate_layout of
\* the list view, the preview and the status panel
DisplayManager_recalculate_layout(terminal_size) ==
    /\ layout' = Layout(terminal_size)
    /\ op' = Call("DisplayManager_recalculate_layout", <<>>, 0)
    /\ UNCHANGED <<list, cursor, scroll_offset, max_height, window, result,
                   expanded, styles, preview, inputVars, panel, drawVars,
                   threadVars, asset_folder>>

\* DisplayManager.start: the panels are built and laid out on the terminal
LayoutInit ==
    /\ list = <<>>
    /\ cursor = 0
    /\ scroll_offset = 0
    /\ max_height = InitMaxHeight
    /\ window = <<>>
    /\ op = Call("start", <<>>, 0)
    /\ result = NoResult
    /\ expanded = NoneExpanded
    /\ styles = <<>>
    /\ preview = NewPanel
    /\ listeners = NoListeners
    /\ running = TRUE
    /\ thread = "new"
    /\ delivered = <<>>
    /\ after_stop = 0
    /\ panel = NoPanel
    /\ text_panel = NoTextPanel
    /\ frame = NoFrame
    /\ main = "none"
    /\ iterator = NoIterator
    /\ terminal = "curses"
    /\ \E terminal_size \in LayoutSizes : layout = Layout(terminal_size)
    /\ asset_folder = NoAssetFolder

LayoutNext ==
    \E terminal_size \in LayoutSizes :
        DisplayManager_recalculate_layout(terminal_size)

LayoutSpec == LayoutInit /\ [][LayoutNext]_vars

----------------------------------------------------------------------------
(* ConfigSpec: panels are constructed from properties that the builder      *)
(* methods of DisplayPanelProperties accept, valid or not.                  *)

\* values set_constraints accepts: it stores whatever it is given
AnyConstraints == {Cells(1), Cells(-1), Fraction(3, 2)}

\* values set_size accepts: it stores whatever is not falsy
AnySizes == {Fraction(1, 1), Cells(-3), Fraction(3, 2)}

AnyProperties ==
    [top : AnyConstraints, bottom : AnyConstraints, height : AnySizes,
     left : {Cells(0)}, right : {Cells(0)}, width : AnySizes,
     float_vertical : {"TOP", "CENTER", "BOTTOM"},
     float_horizontal : {"LEFT", "CENTER", "RIGHT"}]

\* curses.newwin(nlines, ncols, begin_y, begin_x): curses.error when one of
\* them is negative
newwin(nlines, ncols, begin_y, begin_x) ==
    IF nlines < 0 \/ ncols < 0 \/ begin_y < 0 \/ begin_x < 0
    THEN Raised("curses.error") ELSE NoResult

\* DisplayPanel.__init__: get_size against TerminalSize(10, 10), then newwin;
\* the properties are not examined.  panel is the object the call made, if any.
DisplayPanel_init(properties) ==
    LET sized == get_size(properties, TerminalSize(10, 10))
        created == newwin(sized.height, sized.width, sized.top, sized.left)
    IN  /\ result' = created
        /\ panel' = IF created.raised = "none"
                     THEN NewDisplayPanel(properties) ELSE NoPanel
        /\ op' = Call("DisplayPanel", <<properties>>, 0)
        /\ UNCHANGED <<list, cursor, scroll_offset, max_height, window,
                       expanded, styles, preview, inputVars, drawVars, threadVars, appVars>>

ConfigNext == \E properties \in AnyProperties : DisplayPanel_init(properties)

ConfigSpec == Init /\ [][ConfigNext]_vars

----------------------------------------------------------------------------
(* RenderSpec: a ListView that is given style rules and lists of tree       *)
(* entries.                                                                 *)

\* the colour names set_style is called with (attributes of curses)
ColorNames == {"COLOR_RED", "COLOR_BLUE"}

\* the predicates set_style is called with: the browser's, one for files, one
\* naming an attribute no entry has, one of two keys of which directories
\* lack the second, and the empty dict
Predicates ==
    {<<<<"entry_type", "entry:directory">>>>,
     <<<<"entry_type", "entry:file">>>>,
     <<<<"kind", "dir">>>>,
     <<<<"entry_type", "entry:directory">>, <<"entry_hash", "hash">>>>,
     <<>>}

\* the lists set_list is called with: folders of the tree
RenderLists == {list_folder(Root), list_folder(1)}

RenderNext ==
    \/ \E color_name \in ColorNames :
            \E predicate \in Predicates :
                /\ Len(styles) < MaxRules
                /\ set_style(color_name, predicate)
                /\ UNCHANGED <<expanded, preview, inputVars, panel, drawVars,
                               threadVars, appVars>>
    \/ \E new_list \in RenderLists :
            set_list(new_list) /\ ListViewOnly
    \/ prev /\ ListViewOnly
    \/ next /\ ListViewOnly

RenderSpec == Init /\ [][RenderNext]_vars

----------------------------------------------------------------------------
(* InputSpec: the InputManager, from its construction on.                   *)

\* a step of the InputManager alone
InputOnly ==
    UNCHANGED <<list, cursor, scroll_offset, max_height, window, expanded,
                styles, preview, panel, drawVars, threadVars, appVars>>

InputInit ==
    /\ list = <<>>
    /\ cursor = 0
    /\ scroll_offset = 0
    /\ max_height = InitMaxHeight
    /\ window = <<>>
    /\ op = NoArg
    /\ result = NoResult
    /\ RestInit

InputNext ==
    \/ \E listener \in ListenerObjects : add_listener(listener) /\ InputOnly
    \/ \E listener \in ListenerObjects : remove_listener(listener) /\ InputOnly
    \/ start /\ InputOnly
    \/ stop /\ InputOnly
    \/ \E char \in RawEvents :
            \E outcome \in Outcomes(KeyName(char)) :
                dispatch_event(char, outcome) /\ InputOnly

InputSpec == InputInit /\ [][InputNext]_vars

----------------------------------------------------------------------------
(* StartSpec: the two threads of the running browser.  The main thread runs *)
(* setup / await_termination statement by statement; the InputManager       *)
(* thread runs the loop of run, one listener of dispatch_event's for loop   *)
(* at a time.  What the callbacks draw is left out.                         *)

\* the statements of await_termination after display_manager.start() that
\* change the title, the preview panel and the list view, in order
Statements == <<"set_title", "set_text", "set_style", "set_list">>

\* the statement after a statement of await_termination
Following(statement) ==
    CASE statement = "set_title" -> "set_text"
      [] statement = "set_text" -> "set_style"
      [] statement = "set_style" -> "set_list"
      [] statement = "set_list" -> "add_listener"
      [] statement = "add_listener" -> "wait"

\* a step of the two threads changes none of the panels' variables
ThreadsOnly ==
    UNCHANGED <<list, cursor, scroll_offset, max_height, window, expanded,
                styles, preview, result, panel, drawVars, appVars>>

\* DisplayManager.start, called first by await_termination: init_curses, the
\* panels, add_listener(self) and input_manager.start(), which starts the
\* thread; its run() reaches the loop
main_start ==
    /\ main = "start"
    /\ terminal' = "curses"
    /\ listeners' = Append(listeners, <<hash("display_manager"), "display_manager">>)
    /\ thread' = LoopCondition(running)
    /\ main' = "set_title"
    /\ op' = Call("await_termination", <<>>, 0)
    /\ UNCHANGED <<running, delivered, after_stop, iterator>>
    /\ ThreadsOnly

\* the main thread runs set_title, preview.set_text, list_view.set_style or
\* list_view.set_list
main_statement ==
    /\ \E i \in 1..Len(Statements) :
          /\ main = Statements[i]
          /\ op' = Call("await_termination", <<>>, i)
    /\ main' = Following(main)
    /\ UNCHANGED <<inputVars, iterator, terminal>>
    /\ ThreadsOnly

\* the main thread runs input_manager.add_listener(self)
main_add_listener ==
    /\ main = "add_listener"
    /\ listeners' = Append(listeners, <<hash("browser"), "browser">>)
    /\ main' = Following(main)
    /\ op' = Call("await_termination", <<>>, Len(Statements) + 1)
    /\ UNCHANGED <<running, thread, delivered, after_stop, iterator, terminal>>
    /\ ThreadsOnly

\* AssetIndexBrowser.terminate: DisplayManager.stop (InputManager.stop, then
\* stop_curses) and termination.set()
terminate ==
    /\ running' = FALSE
    /\ terminal' = "restored"
    /\ main' = "done"

\* Ctrl-C raises KeyboardInterrupt in the main thread, in await_termination;
\* setup catches it and calls terminate()
main_interrupt ==
    /\ main \in {"set_title", "set_text", "set_style", "set_list",
                 "add_listener", "wait"}
    /\ terminate
    /\ op' = Call("setup", <<>>, 0)
    /\ UNCHANGED <<listeners, thread, delivered, after_stop, iterator>>
    /\ ThreadsOnly

\* the thread's get_wch returns char; dispatch_event computes key_name and
\* enters the for loop over self.listeners.values()
get_wch(char) ==
    /\ thread = "blocked"
    /\ thread' = "dispatching"
    /\ iterator' = [pos |-> 0, size |-> Len(listeners), key_name |-> KeyName(char)]
    /\ delivered' = <<>>
    /\ after_stop' = IF running THEN after_stop ELSE after_stop + 1
    /\ op' = Call("dispatch_event", <<char>>, 0)
    /\ UNCHANGED <<listeners, running, main, terminal>>
    /\ ThreadsOnly

\* the for loop fetches the next listener: the dict iterator raises
\* RuntimeError when the dict changed size since the loop began, and nothing
\* in dispatch_event or run catches that; at the end of the dict the loop of
\* run tests the flag again
for_next ==
    /\ thread = "dispatching"
    /\ \/ /\ Len(listeners) # iterator.size
          /\ thread' = "crashed"
          /\ iterator' = NoIterator
          /\ op' = Call("RuntimeError", <<>>, 0)
          /\ UNCHANGED <<listeners, running, delivered, after_stop, main, terminal>>
       \/ /\ Len(listeners) = iterator.size
          /\ iterator.pos = iterator.size
          /\ thread' = LoopCondition(running)
          /\ iterator' = NoIterator
          /\ op' = Call("run", <<>>, 0)
          /\ UNCHANGED <<listeners, running, delivered, after_stop, main, terminal>>
       \/ /\ Len(listeners) = iterator.size
          /\ iterator.pos < iterator.size
          /\ LET listener == listeners[iterator.pos + 1][2]
             IN  \E outcome \in CallbackOutcomes(listener, iterator.key_name) :
                    /\ delivered' = Append(delivered,
                            CallOf(listener, iterator.key_name,
                                   [l \in {listener} |-> outcome]))
                    /\ IF outcome = "stop"
                       THEN terminate
                       ELSE UNCHANGED <<running, terminal, main>>
          /\ iterator' = [iterator EXCEPT !.pos = iterator.pos + 1]
          /\ op' = Call("callback", <<>>, 0)
          /\ UNCHANGED <<listeners, thread, after_stop>>
    /\ ThreadsOnly

StartInit ==
    /\ list = <<>>
    /\ cursor = 0
    /\ scroll_offset = 0
    /\ max_height = InitMaxHeight
    /\ window = <<>>
    /\ op = NoArg
    /\ result = NoResult
    /\ expanded = NoneExpanded
    /\ styles = <<>>
    /\ preview = NewPanel
    /\ listeners = NoListeners
    /\ running = TRUE
    /\ thread = "new"
    /\ delivered = <<>>
    /\ after_stop = 0
    /\ panel = NoPanel
    /\ text_panel = NoTextPanel
    /\ frame = NoFrame
    /\ main = "start"
    /\ iterator = NoIterator
    /\ terminal = "shell"
    /\ layout = NoLayout
    /\ asset_folder = NoAssetFolder

StartNext ==
    \/ main_start
    \/ main_statement
    \/ main_add_listener
    \/ main_interrupt
    \/ \E char \in RawEvents : get_wch(char)
    \/ for_next

StartSpec == StartInit /\ [][StartNext]_vars

----------------------------------------------------------------------------
(* Properties.                                                              *)

\* 0 <= cursor < len(entries)
InRange == 0 <= cursor /\ cursor < Len(list)

\* scrollOffset <= cursor <= scrollOffset + viewportHeight - 1
InView == scroll_offset <= cursor /\ cursor <= scroll_offset + max_height - 1

\* C1: in every reachable state of the list view where the list is not
\* empty, the cursor is an index of the list: 0 <= cursor < len(list).
C1_CursorInRange == list # <<>> => InRange

\* set_list has clamped a cursor that was past the end of the new list
C1_Witness ==
    /\ op.name = "set_list"
    /\ Len(list) >= 2
    /\ cursor = Len(list) - 1
    /\ scroll_offset > cursor

\* C2: after every operation that changes the list, the cursor or the
\* viewport height, with a non-empty list, the cursor row is inside the
\* viewport: scroll_offset <= cursor <= scroll_offset + max_height - 1.
C2_CursorInViewport ==
    (/\ list # <<>>
     /\ op.name \in {"set_list", "insert_items", "collapse_items",
                     "prev", "next", "recalculate_layout"})
        => InView

\* C3: a prev or next call on a non-empty list whose cursor is in range and
\* inside the viewport (max_height >= 1, unchanged by the call) leaves the
\* cursor in range and inside the viewport; by induction this covers every
\* finite sequence of such calls.
C3_MovesKeepCursorVisible ==
    [][(/\ op'.name \in {"prev", "next"}
        /\ list # <<>>
        /\ max_height >= 1
        /\ InRange
        /\ InView)
            => (max_height' = max_height /\ InRange' /\ InView')]_vars

\* a prev call has scrolled the viewport to keep the cursor on its last row
C3_Witness ==
    /\ op.name = "prev"
    /\ scroll_offset >= 1
    /\ cursor = scroll_offset + max_height - 1
    /\ InRange

\* the rows of the tree when exactly the directories of open are expanded
RECURSIVE FlattenRows(_, _)
FlattenRows(nodes, open) ==
    IF nodes = <<>> THEN <<>>
    ELSE <<Head(nodes)>>
            \o (IF Head(nodes) \in open
                THEN FlattenRows(children[Head(nodes)], open) ELSE <<>>)
            \o FlattenRows(Tail(nodes), open)

\* C4: in every state the browser's key handler reaches, the list is the
\* pre-order flattening of the tree for some set of expanded directories:
\* no row is orphaned and no row of an unrelated sibling is missing.
C4_PreorderFlattening ==
    \E open \in SUBSET (Directories \ {Root}) :
        list = FlattenRows(list_folder(Root), open)

\* C5: insert_items(C) on a non-empty list keeps the cursor where it was, and
\* collapsing len(C) items at that cursor gives back the list as it was
\* before the insert, element for element.
C5_InsertCollapseRoundTrip ==
    [][(op'.name = "insert_items" /\ list # <<>>)
            => /\ cursor' = cursor
               /\ CollapsedList(list', cursor', Len(op'.items)) = list]_vars

\* two children were inserted in the middle of a list
C5_Witness ==
    /\ op.name = "insert_items"
    /\ Len(op.items) = 2
    /\ cursor >= 1
    /\ Len(list) > cursor + 1 + Len(op.items)
    /\ SubSeq(list, cursor + 2, cursor + 3) = op.items

\* C6: insert_items(C) on a non-empty list with cursor i yields
\* old[0..i] ++ C ++ old[i+1..] and leaves the cursor index unchanged.
C6_InsertIsContiguousBlock ==
    [][(op'.name = "insert_items" /\ list # <<>>)
            => /\ list' = SubSeq(list, 1, cursor + 1) \o op'.items
                            \o SubSeq(list, cursor + 2, Len(list))
               /\ cursor' = cursor]_vars

\* two children were inserted after the first row of a longer list
C6_Witness ==
    /\ op.name = "insert_items"
    /\ Len(op.items) = 2
    /\ cursor = 0
    /\ Len(list) >= 4
    /\ list[2] = op.items[1]
    /\ list[3] = op.items[2]

\* C7: collapse_items(n) on a non-empty list with cursor i keeps the rows at
\* indices <= i, drops the rows at i+1..i+n (as many of them as exist) and
\* keeps the rows after them in order; the list shrinks by exactly n when at
\* least n rows follow the cursor; the cursor index is unchanged.
C7_CollapseRemovesNAfterCursor ==
    [][(op'.name = "collapse_items" /\ list # <<>>)
            => LET n == op'.n
                   i == cursor
               IN  /\ cursor' = i
                   /\ Len(list') = IF Len(list) - (i + 1) >= n
                                   THEN Len(list) - n ELSE i + 1
                   /\ \A k \in 1..Len(list') :
                        list'[k] = IF k <= i + 1 THEN list[k] ELSE list[k + n]]_vars

\* two rows were removed from the middle of a list: rows remain on both sides
C7_Witness ==
    /\ op.name = "collapse_items"
    /\ op.n = 2
    /\ cursor >= 1
    /\ Len(list) > cursor + 1

\* C8: prev moves the cursor one row down unless it is on the last row, next
\* moves it one row up unless it is on the first row; a call at the end is a
\* no-op for cursor and scroll_offset; scroll_offset changes by at most one.
C8_MoveByOneNoWraparound ==
    [][(op'.name \in {"prev", "next"})
            => /\ op'.name = "prev" =>
                    IF cursor + 1 < Len(list)
                    THEN cursor' = cursor + 1
                    ELSE cursor' = cursor /\ scroll_offset' = scroll_offset
               /\ op'.name = "next" =>
                    IF cursor >= 1
                    THEN cursor' = cursor - 1
                    ELSE cursor' = cursor /\ scroll_offset' = scroll_offset
               /\ scroll_offset' - scroll_offset \in {-1, 0, 1}]_vars

\* next was called and the cursor is on the first row of a list of several
C8_Witness ==
    /\ op.name = "next"
    /\ cursor = 0
    /\ scroll_offset = 0
    /\ Len(list) >= 2

\* C9: after set_list(new_list) the list is new_list, the cursor is clamped
\* into the list and scroll_offset = max(0, cursor - max_height + 1).
C9_SetListResetsScroll ==
    op.name = "set_list"
        => /\ list = op.items
           /\ list # <<>> => InRange
           /\ scroll_offset = Max(0, cursor - max_height + 1)

\* C10: get_value returns list[cursor] when the list is not empty and raises
\* IndexError when it is empty; it changes nothing of the list view.
C10_GetValue ==
    [][(op'.name = "get_value")
            => /\ UNCHANGED <<list, cursor, scroll_offset, max_height>>
               /\ list # <<>> =>
                    result' = [raised |-> "none", value |-> list[cursor + 1]]
               /\ list = <<>> => result'.raised = "IndexError"]_vars

\* get_value raised on a list that set_list or collapse_items left empty
C10_Witness ==
    /\ op.name = "get_value"
    /\ list = <<>>
    /\ cursor = -1
    /\ result.raised = "IndexError"

\* the listeners registered in the InputManager, by identity
Registered == {listeners[i][2] : i \in 1..Len(listeners)}

\* C11: an exception raised by a listener's callback during a dispatch does not
\* keep the listeners after it from being called for that event, and the
\* dispatcher loop goes on to the next event.
C11_ListenerFaultIsolation ==
    op.name = "dispatch_event"
        => /\ \A listener \in Registered :
                \E i \in 1..Len(delivered) : delivered[i].listener = listener
           /\ running => thread = "blocked"

\* the first listener called raised, the one after it was called all the
\* same, and the loop waits for the next event
C11_Witness ==
    /\ op.name = "dispatch_event"
    /\ Len(delivered) >= 2
    /\ delivered[1].outcome = "raise"
    /\ delivered[2].outcome = "return"
    /\ running
    /\ thread = "blocked"

\* C12: add_listener of a listener that is already registered raises KeyError
\* and leaves the registered set unchanged; add_listener of any listener that
\* is not registered succeeds and registers it.  Listeners are told apart by
\* identity.
C12_AddListenerByIdentity ==
    [][(op'.name = "add_listener")
            => LET listener == op'.items[1]
               IN  IF listener \in Registered
                   THEN /\ result'.raised = "KeyError"
                        /\ Registered' = Registered
                   ELSE /\ result'.raised = "none"
                        /\ Registered' = Registered \cup {listener}]_vars

\* C13: remove_listener of a registered listener removes exactly that listener;
\* remove_listener of a listener that is not registered raises KeyError and
\* leaves the registered set unchanged.
C13_RemoveListenerByIdentity ==
    [][(op'.name = "remove_listener")
            => LET listener == op'.items[1]
               IN  IF listener \in Registered
                   THEN /\ result'.raised = "none"
                        /\ Registered' = Registered \ {listener}
                   ELSE /\ result'.raised = "KeyError"
                        /\ Registered' = Registered]_vars

\* the key name the listeners are to see for a raw event
C14_Normalized(char) ==
    CASE char = [is_int |-> TRUE, code |-> 259, char |-> ""] -> "KEY_UP"
      [] char = [is_int |-> FALSE, code |-> 0, char |-> "q"] -> "Q"
      [] char = [is_int |-> FALSE, code |-> 0, char |-> "+"] -> "+"
      [] OTHER -> "?"

\* C14: for one input event every listener registered at that time gets
\* exactly one callback: on_resize (and no on_key) for a resize event, and
\* otherwise on_key with the normalized key name, the key name of the terminal
\* library for a special key and the uppercased character for a character.
C14_OneCallbackPerListener ==
    op.name = "dispatch_event"
        => /\ \A listener \in Registered :
                Cardinality({i \in 1..Len(delivered) :
                                delivered[i].listener = listener}) = 1
           /\ \A i \in 1..Len(delivered) :
                /\ delivered[i].listener \in Registered
                /\ IF op.items[1] = [is_int |-> TRUE, code |-> 410, char |-> ""]
                   THEN delivered[i].callback = "on_resize"
                   ELSE /\ delivered[i].callback = "on_key"
                        /\ delivered[i].key = C14_Normalized(op.items[1])

\* the character q reached two listeners as the key Q
C14_Witness ==
    /\ op.name = "dispatch_event"
    /\ op.items[1] = [is_int |-> FALSE, code |-> 0, char |-> "q"]
    /\ Len(delivered) = 2
    /\ delivered[1].key = "Q"
    /\ delivered[2].key = "Q"
    /\ delivered[1].callback = "on_key"

\* C15: once stop has cleared the running flag, the loop dispatches at most
\* one more event and then ends; when stop is called inside a callback the
\* loop ends with that dispatch.
C15_CooperativeShutdown ==
    /\ after_stop <= 1
    /\ after_stop = 1 => thread = "exited"
    /\ (op.name = "dispatch_event" /\ ~running) => thread = "exited"

\* stop was called while the loop waited for input; the next event was still
\* dispatched to a listener, and the loop ended
C15_Witness ==
    /\ op.name = "dispatch_event"
    /\ after_stop = 1
    /\ Len(delivered) >= 1
    /\ ~running
    /\ thread = "exited"

\* C16: after a terminal resize has been handled by the DisplayManager, the
\* preview panel shows its cached contents again and the list view shows its
\* currently visible entries again, without any other input.
C16_ResizeRedrawsContents ==
    op.name = "recalculate_layout"
        => /\ preview.shown.text = preview.contents
           /\ [k \in 1..Len(window) |-> window[k].entry]
                = PySlice(list, scroll_offset, scroll_offset + max_height)

\* the operations of the list view that always end in refresh_contents
Redrawn == op.name \in {"set_list", "insert_items", "collapse_items"}

\* the colour of the first rule, in registration order, that matches the entry
FirstMatchColor(entry) ==
    IF \E i \in 1..Len(styles) : match(styles[i], entry)
    THEN LET first == CHOOSE i \in 1..Len(styles) :
                        /\ match(styles[i], entry)
                        /\ \A j \in 1..(i - 1) : ~match(styles[j], entry)
         IN  styles[first].color
    ELSE 0

\* C17: every visible entry is rendered with the colour of the first rule, in
\* registration order, whose predicate fully matches it, and with the default
\* colour (pair 0) when no rule matches.
C17_FirstMatchingRuleWins ==
    Redrawn
        => \A k \in 1..Len(window) :
                window[k].attribute.pair = FirstMatchColor(window[k].entry)

\* C18: the row at the cursor is rendered with the highlight and, with it, the
\* colour its entry gets when it is not under the cursor.
C18_HighlightOverColor ==
    Redrawn
        => \A k \in 1..Len(window) :
                k - 1 = cursor - scroll_offset
                    => /\ window[k].attribute.reverse
                       /\ window[k].attribute.pair = FirstMatchColor(window[k].entry)

\* floor(fraction x dimension) of a constraint, or its cells
Resolved(c, dimension) ==
    IF c.is_int THEN c.num
    ELSE CHOOSE n \in 0..dimension :
            /\ n * c.den <= c.num * dimension
            /\ (n + 1) * c.den > c.num * dimension

\* leftover, or min(leftover, size) when the size did not resolve to 0
ResolvedSize(near_c, far_c, size_c, dimension) ==
    LET leftover == dimension - Resolved(near_c, dimension) - Resolved(far_c, dimension)
        size == Resolved(size_c, dimension)
    IN  IF size = 0 THEN leftover
        ELSE IF leftover <= size THEN leftover ELSE size

\* C19: for every anchor and on both axes the panel's size is leftover =
\* dimension - near - far when the size constraint resolves to 0, and
\* min(leftover, size) otherwise, all three resolved to whole cells.
C19_SizeResolution ==
    LET p == panel.properties
        t == panel.terminal_size
    IN  /\ panel.window.height = ResolvedSize(p.top, p.bottom, p.height, t.height)
        /\ panel.window.width = ResolvedSize(p.left, p.right, p.width, t.width)

\* near for Start, (dimension - size) div 2 for Center, dimension - size - far
\* for End
ResolvedPosition(near_c, far_c, size_c, anchor, dimension) ==
    LET size == ResolvedSize(near_c, far_c, size_c, dimension)
    IN  CASE anchor \in {"LEFT", "TOP"} -> Resolved(near_c, dimension)
          [] anchor = "CENTER" ->
                CHOOSE n \in 0..dimension :
                    2 * n <= dimension - size /\ 2 * (n + 1) > dimension - size
          [] OTHER -> dimension - size - Resolved(far_c, dimension)

\* C20: on both axes the panel's left/top is the anchor's offset plus the
\* directional correction: near for Start, (dimension - size) div 2 for
\* Center (also with the automatic size), dimension - size - far for End.
C20_PositionResolution ==
    LET p == panel.properties
        t == panel.terminal_size
    IN  /\ panel.window.top
            = ResolvedPosition(p.top, p.bottom, p.height, p.float_vertical, t.height)
        /\ panel.window.left
            = ResolvedPosition(p.left, p.right, p.width, p.float_horizontal, t.width)

\* every key of the predicate is an attribute of the entry, with that value
AllKeysEqual(predicate, entry) ==
    \A i \in 1..Len(predicate) :
        /\ HasAttr(entry, predicate[i][1])
        /\ GetAttr(entry, predicate[i][1]) = predicate[i][2]

\* C26: a style rule matches an entry exactly when every key of its predicate
\* is an attribute of the entry with the required value; an entry that lacks
\* a key is not matched (and nothing is raised), and the empty predicate
\* matches every entry.  A row that is not under the cursor is coloured
\* exactly when some rule matches its entry.
C26_MatchIffAllKeysEqual ==
    /\ \A i \in 1..Len(styles) :
        \A k \in 1..Len(list) :
            match(styles[i], list[k]) <=> AllKeysEqual(styles[i].predicate, list[k])
    /\ Redrawn
        => \A k \in 1..Len(window) :
                k - 1 # cursor - scroll_offset
                    => (window[k].attribute.pair # 0
                            <=> \E i \in 1..Len(styles) :
                                    AllKeysEqual(styles[i].predicate, window[k].entry))

\* a list was drawn under two rules: one names an attribute a drawn entry
\* lacks, the other is the empty predicate and colours a row off the cursor
C26_Witness ==
    /\ Redrawn
    /\ Len(styles) = 2
    /\ styles[1].predicate = <<<<"kind", "dir">>>>
    /\ styles[2].predicate = <<>>
    /\ Len(window) >= 2
    /\ window[2].attribute.pair = styles[2].color

\* C30: scroll_offset >= 0 in every reachable state of the list view, after
\* any sequence of set_list, insert_items, collapse_items, next, prev and
\* resizes.
C30_ScrollOffsetNonNegative == scroll_offset >= 0

\* next moved the cursor up to the top row of a window that is still scrolled
C30_Witness ==
    /\ op.name = "next"
    /\ scroll_offset >= 1
    /\ cursor = scroll_offset

\* C23: the redraw of a text panel that a resize triggers uses the contents
\* and the horizontal and vertical alignment of the most recent set_text;
\* the caller supplies none of them again.
C23_ResizeRedrawUsesLastSetText ==
    op.name = "recalculate_layout"
        => preview.shown = Drawn(preview.contents, preview.last_align[1],
                                 preview.last_align[2])

\* C24: add_string moves a content position by one on exactly the axes that
\* have a border (rows when the horizontal border lines are drawn, columns
\* when the vertical ones are), for all four combinations of the two flags.
C24_BorderTranslation ==
    frame.target = "panel"
        => \A k \in 1..Len(frame.writes) :
                /\ frame.writes[k].y = frame.writes[k].row
                        + (IF text_panel.box_horizontal THEN 1 ELSE 0)
                /\ frame.writes[k].x = frame.writes[k].col
                        + (IF text_panel.box_vertical THEN 1 ELSE 0)

\* C25: the lines set_text draws are the first max_height lines of the block
\* got by wrapping every line of the whole contents, in order, to max_width.
C25_TruncatesWrappedBlock ==
    frame.target = "panel"
        => [k \in 1..Len(frame.writes) |-> frame.writes[k].text]
                = PySlice(WrapAll(text_panel.contents, text_panel.max_width),
                          0, text_panel.max_height)

\* C27: a write that lands outside the addressable region is dropped by
\* itself: nothing is raised to the caller, every row of the frame is still
\* written, and the border and the refresh are still done, for a panel's
\* contents and for the title line alike.
C27_WriteFaultsDiscarded ==
    frame.target # "none"
        => /\ frame.raised = "none"
           /\ frame.refreshed
           /\ frame.target = "panel"
                => /\ frame.boxed
                   /\ Len(frame.writes)
                        = Len(Viewport(text_panel.contents, text_panel.max_width,
                                       text_panel.max_height))

\* a constraint that is negative, or a fraction outside [0, 1]
InvalidConstraint(c) ==
    \/ c.num < 0
    \/ ~c.is_int /\ c.num > c.den

InvalidSpec(properties) ==
    \E c \in {properties.top, properties.bottom, properties.left,
              properties.right, properties.width, properties.height} :
        InvalidConstraint(c)

\* C21: constructing a panel from properties with a negative edge or size
\* constraint, or a fraction outside [0, 1], fails with ConfigurationError
\* and creates no panel.
C21_InvalidSpecRejected ==
    (op.name = "DisplayPanel" /\ InvalidSpec(op.items[1]))
        => result.raised = "ConfigurationError"

\* C22: while the dispatcher loop runs, the title, the panels, the list view
\* and the listener registry are changed only inside the callbacks of a
\* dispatch: the main thread changes none of them while a dispatch is in
\* progress.
C22_SingleWriter ==
    [][(op'.name = "await_termination") => thread # "dispatching"]_vars

\* C28: the dispatcher loop ends only after stop() was called: whenever its
\* thread has ended, by leaving the loop or by an exception, the running flag
\* is cleared.
C28_LoopEndsOnlyAfterStop ==
    thread \in {"exited", "crashed"} => ~running

\* C29: no callback of a listener is invoked after DisplayManager.stop() has
\* restored the terminal, whichever thread called it.
C29_NoCallbackAfterRestore ==
    [][(Len(delivered') > Len(delivered)) => terminal = "curses"]_vars

\* a Window of positive width and height
Positive(w) == w.width > 0 /\ w.height > 0

\* a Window that lies inside the terminal
Inside(w, terminal_size) ==
    /\ w.left >= 0
    /\ w.top >= 0
    /\ w.left + w.width <= terminal_size.width
    /\ w.top + w.height <= terminal_size.height

\* two Windows that share no cell
Disjoint(a, b) ==
    \/ a.left + a.width <= b.left
    \/ b.left + b.width <= a.left
    \/ a.top + a.height <= b.top
    \/ b.top + b.height <= a.top

\* three Windows on a terminal: each positive and inside, no two overlapping
WellFormed(a, b, c, terminal_size) ==
    /\ \A w \in {a, b, c} : Positive(w) /\ Inside(w, terminal_size)
    /\ Disjoint(a, b)
    /\ Disjoint(a, c)
    /\ Disjoint(b, c)

\* C31: on every terminal at least 5 rows high and 3 columns wide, the
\* Windows get_size (of src/display.py and of src/tools/display.py) gives the
\* file list, the preview and the status panel each have positive width and
\* height, lie inside the terminal and are pairwise disjoint.
C31_LayoutWellFormed ==
    (layout.terminal_size.height >= 5 /\ layout.terminal_size.width >= 3) =>
        /\ WellFormed(layout.list_view.window, layout.preview.window,
                      layout.status_panel.window, layout.terminal_size)
        /\ WellFormed(layout.list_view.tools_window, layout.preview.tools_window,
                      layout.status_panel.tools_window, layout.terminal_size)

\* the layout was recalculated for the smallest terminal of the claim
C31_Witness ==
    /\ op.name = "DisplayManager_recalculate_layout"
    /\ layout.terminal_size = TerminalSize(5, 3)
    /\ layout.list_view.window = [width |-> 1, height |-> 1, left |-> 0, top |-> 1]

\* the elements of a sequence
Range(seq) == {seq[i] : i \in 1..Len(seq)}

\* C32: extracting the selected entry copies every file of its subtree whose
\* destination does not exist yet and whose object can be copied; a file
\* whose destination exists, or whose copy fails, does not keep the other
\* files from being extracted.
C32_ExtractsEveryMissingFile ==
    [][(op'.name = "extract_entry" /\ GetValue(list, cursor).raised = "none") =>
            \A file \in Range(collect_children(GetValue(list, cursor).value,
                                               "entry:file")) :
                (file \notin asset_folder.extracted /\ file \in asset_folder.objects)
                    => file \in asset_folder'.extracted]_vars

====
